---------------------------- MODULE Spec2Model ----------------------------
(***************************************************************************)
(* A model of the CodeReview service (canstralian/CodeReview): the         *)
(* repository store, the CRUD handlers over it and the analysis pipeline   *)
(* POST /analyze, step by step as app/api/endpoints/analysis.py runs it.   *)
(*                                                                         *)
(* Strings the program takes apart (URLs) are sequences of one-character   *)
(* strings; strings it only compares or joins are TLA+ strings.  An        *)
(* Optional[T] value is <<>> (None) or <<v>>.                              *)
(***************************************************************************)
EXTENDS Integers, Sequences, FiniteSets, TLC

VARIABLES
    repositories,   \* the committed rows of table "repositories"
    code_issues,    \* the committed rows of table "code_issues"
    next_repo_id,   \* the next value of repositories.id
    next_issue_id,  \* the next value of code_issues.id
    github_token,   \* settings.github_token, read once at startup
    call            \* one POST /analyze request per call id: its handler's frame

vars == <<repositories, code_issues, next_repo_id, next_issue_id,
          github_token, call>>

-----------------------------------------------------------------------------
(* Bounds of the model *)

MaxRepoId == 2
MaxIssueId == 1
MaxCritical == 11
MaxHigh == 2
MaxMedium == 1
MaxLow == 1

Calls == {"c1", "c2"}

-----------------------------------------------------------------------------
(* Optional values *)

None == <<>>
Some(v) == <<v>>
IsSome(o) == o # <<>>
Get(o) == o[1]

-----------------------------------------------------------------------------
(* Characters and character sequences *)

Lower == {"a","b","c","d","e","f","g","h","i","j","k","l","m",
          "n","o","p","q","r","s","t","u","v","w","x","y","z"}
Upper == {"A","B","C","D","E","F","G","H","I","J","K","L","M",
          "N","O","P","Q","R","S","T","U","V","W","X","Y","Z"}
Digit == {"0","1","2","3","4","5","6","7","8","9"}
Alnum == Lower \cup Upper \cup Digit

LowerSeq == <<"a","b","c","d","e","f","g","h","i","j","k","l","m",
             "n","o","p","q","r","s","t","u","v","w","x","y","z">>
UpperSeq == <<"A","B","C","D","E","F","G","H","I","J","K","L","M",
             "N","O","P","Q","R","S","T","U","V","W","X","Y","Z">>

\* str.lower(), character by character
ToLower(s) ==
    [k \in 1..Len(s) |->
        IF s[k] \in Upper
        THEN LowerSeq[CHOOSE i \in 1..26 : UpperSeq[i] = s[k]]
        ELSE s[k]]

RECURSIVE Join(_)
Join(s) == IF s = <<>> THEN "" ELSE Head(s) \o Join(Tail(s))

\* The least index i >= from with s[i] \in cs, or 0 when there is none.
Find(s, cs, from) ==
    IF \E i \in from..Len(s) : s[i] \in cs
    THEN CHOOSE i \in from..Len(s) :
             /\ s[i] \in cs
             /\ \A j \in from..(i - 1) : s[j] \notin cs
    ELSE 0

\* str.split(sep) with the empty pieces dropped: [p for p in s.split("/") if p]
RECURSIVE SplitNonEmpty(_, _)
SplitNonEmpty(s, sep) ==
    IF s = <<>> THEN <<>>
    ELSE LET i == Find(s, {sep}, 1)
         IN  IF i = 0 THEN <<s>>
             ELSE IF i = 1 THEN SplitNonEmpty(Tail(s), sep)
             ELSE <<SubSeq(s, 1, i - 1)>> \o SplitNonEmpty(SubSeq(s, i + 1, Len(s)), sep)

-----------------------------------------------------------------------------
(* Repository identity: app/core/security.py *)

SchemeChars == Alnum \cup {"+", "-", "."}

\* s up to, and without, its first character in cs; all of s when there is none.
Before(s, cs, i) == IF i = 0 THEN s ELSE SubSeq(s, 1, i - 1)
CutAt(s, cs) == Before(s, cs, Find(s, cs, 1))

\* The scheme is cut off at the first ":" when the text before it starts
\* with a letter and holds scheme characters only.
HasScheme(url, colon) ==
    /\ colon > 1
    /\ url[1] \in Lower \cup Upper
    /\ \A k \in 1..(colon - 1) : url[k] \in SchemeChars
SchemeAt(url, colon) ==
    IF HasScheme(url, colon) THEN SubSeq(url, 1, colon - 1) ELSE <<>>
AfterSchemeAt(url, colon) ==
    IF HasScheme(url, colon) THEN SubSeq(url, colon + 1, Len(url)) ELSE url
AfterScheme(url) == AfterSchemeAt(url, Find(url, {":"}, 1))

\* The network location follows a leading "//" and ends before the next
\* "/", "?" or "#".
HasNetloc(rest) == Len(rest) >= 2 /\ rest[1] = "/" /\ rest[2] = "/"
NetlocTo(rest, delim) ==
    IF delim = 0 THEN SubSeq(rest, 3, Len(rest)) ELSE SubSeq(rest, 3, delim - 1)
AfterNetlocFrom(rest, delim) ==
    IF delim = 0 THEN <<>> ELSE SubSeq(rest, delim, Len(rest))
Netloc(rest) ==
    IF HasNetloc(rest) THEN NetlocTo(rest, Find(rest, {"/", "?", "#"}, 3)) ELSE <<>>
AfterNetloc(rest) ==
    IF HasNetloc(rest) THEN AfterNetlocFrom(rest, Find(rest, {"/", "?", "#"}, 3)) ELSE rest

\* The index of the last "/" of s, 0 when it has none.
LastSlash(s) ==
    CHOOSE k \in 0..Len(s) :
        /\ k > 0 => s[k] = "/"
        /\ \A j \in (k + 1)..Len(s) : s[j] # "/"

\* The ";" parameters of the last path segment are cut off.
WithoutParams(s) == Before(s, {";"}, Find(s, {";"}, LastSlash(s) + 1))

\* The path is what follows the network location, without its fragment,
\* query and parameters.
PathOf(rest) == WithoutParams(CutAt(CutAt(AfterNetloc(rest), {"#"}), {"?"}))

\* urllib.parse.urlparse, as far as validate_github_url reads its result.
NetlocOf(url) == Netloc(AfterScheme(url))
PathPartsOf(url) == SplitNonEmpty(PathOf(AfterScheme(url)), "/")
urlparse(url) ==
    [scheme |-> SchemeAt(url, Find(url, {":"}, 1)),
     netloc |-> NetlocOf(url),
     path |-> PathOf(AfterScheme(url))]

GitHubHosts == {<<"g","i","t","h","u","b",".","c","o","m">>,
                <<"w","w","w",".","g","i","t","h","u","b",".","c","o","m">>}

\* re.match(r"^[a-zA-Z0-9]([a-zA-Z0-9-_]*[a-zA-Z0-9])?$", s)
MatchesOwnerPattern(s) ==
    /\ Len(s) >= 1
    /\ s[1] \in Alnum
    /\ s[Len(s)] \in Alnum
    /\ \A k \in 1..Len(s) : s[k] \in Alnum \cup {"-", "_"}

\* re.match(r"^[a-zA-Z0-9]([a-zA-Z0-9-_\.]*[a-zA-Z0-9])?$", s)
MatchesRepoPattern(s) ==
    /\ Len(s) >= 1
    /\ s[1] \in Alnum
    /\ s[Len(s)] \in Alnum
    /\ \A k \in 1..Len(s) : s[k] \in Alnum \cup {"-", "_", "."}

\* The checks of validate_github_url on the path parts, in its order.
CheckPathParts(path_parts) ==
    IF Len(path_parts) < 2
    THEN "Invalid GitHub repository URL format"
    ELSE IF ~MatchesOwnerPattern(path_parts[1])
    THEN "Invalid GitHub owner name"
    ELSE IF ~MatchesRepoPattern(path_parts[2])
    THEN "Invalid GitHub repository name"
    ELSE "ok"

\* A validator that accepts every URL.
validate_github_url_AcceptAll(url) == "ok"

\* validate_github_url: "ok", or the message of the ValidationException.
validate_github_url(url) ==
    IF urlparse(url).netloc \notin GitHubHosts
    THEN "URL must be a GitHub repository URL"
    ELSE CheckPathParts(SplitNonEmpty(urlparse(url).path, "/"))

\* A resolver that returns the names in lower case.
RepoInfo_Lower(path_parts) ==
    [ok |-> TRUE, owner |-> Join(ToLower(path_parts[1])),
     repo |-> Join(ToLower(path_parts[2]))]

\* return path_parts[0], path_parts[1]
RepoInfo(path_parts) ==
    [ok |-> TRUE, owner |-> Join(path_parts[1]), repo |-> Join(path_parts[2])]

\* extract_repo_info: (owner, repo_name), or the ValidationException raised.
extract_repo_info(url) ==
    IF validate_github_url(url) # "ok"
    THEN [ok |-> FALSE, error |-> "ValidationError",
          message |-> validate_github_url(url)]
    ELSE RepoInfo(SplitNonEmpty(urlparse(url).path, "/"))

-----------------------------------------------------------------------------
(* Issue classification: validate_severity and validate_issue_type *)

\* allowed_severities = ["low", "medium", "high", "critical"]
allowed_severities ==
    {<<"l","o","w">>, <<"m","e","d","i","u","m">>, <<"h","i","g","h">>,
     <<"c","r","i","t","i","c","a","l">>}

\* A validator that compares the severity as it was given.
validate_severity_CaseSensitive(severity) ==
    IF severity \notin allowed_severities
    THEN [ok |-> FALSE, error |-> "ValidationError", message |-> "Invalid severity"]
    ELSE [ok |-> TRUE, value |-> severity]

\* validate_severity: the severity in lower case, or the ValidationException.
validate_severity(severity) ==
    IF ToLower(severity) \notin allowed_severities
    THEN [ok |-> FALSE, error |-> "ValidationError", message |-> "Invalid severity"]
    ELSE [ok |-> TRUE, value |-> ToLower(severity)]

\* allowed_types = ["security", "performance", "codeQuality", ...]
allowed_types ==
    {"security", "performance", "codeQuality", "accessibility", "bug", "style"}

\* validate_issue_type: the issue type as given, or the ValidationException.
validate_issue_type(issue_type) ==
    IF issue_type \notin allowed_types
    THEN [ok |-> FALSE, error |-> "ValidationError", message |-> "Invalid issue type"]
    ELSE [ok |-> TRUE, value |-> issue_type]

-----------------------------------------------------------------------------
(* The store: app/models/repository.py *)

Severities == <<"low", "medium", "high", "critical">>
IssueTypes == <<"security", "performance", "codeQuality", "accessibility", "bug", "style">>

Range(f) == {f[x] : x \in DOMAIN f}

\* last_updated has no default and onupdate=datetime.utcnow: it is unset
\* until the first UPDATE of the row and holds the time of the latest UPDATE
\* afterwards.  The model keeps whether it is set, not the time.
utcnow == Some("utcnow")

\* A row of "repositories".  Of the optional columns the model keeps
\* description (which PATCH writes), stars (which stands for the metadata
\* columns analysis fills at insertion), code_quality, issues_count and
\* last_updated.
Repository(id, body) ==
    [id |-> id,
     full_name |-> body.full_name,
     name |-> body.name,
     owner |-> body.owner,
     url |-> body.url,
     description |-> body.description,
     stars |-> body.stars,
     code_quality |-> None,
     issues_count |-> None,
     last_updated |-> None]

\* A row of "code_issues": the key, the owner and the two classification
\* columns, both plain strings in the table.
CodeIssue(id, repository_id, severity, issue_type) ==
    [id |-> id, repository_id |-> repository_id,
     severity |-> severity, issue_type |-> issue_type]

\* select(Repository).where(Repository.full_name == full_name)
ByFullName(rows, full_name) == {r \in rows : r.full_name = full_name}

\* select(Repository).where(Repository.id == id)
ById(rows, id) == {r \in rows : r.id = id}

\* The count without .where(CodeIssue.repository_id == repository.id).
CountBySeverity_AnyRepository(issues, id, s) ==
    Cardinality({i \in issues : i.severity = s})

\* select(func.count(CodeIssue.id)).where(repository_id == id).where(severity == s)
CountBySeverity(issues, id, s) ==
    Cardinality({i \in issues : i.repository_id = id /\ i.severity = s})

\* select(func.count(CodeIssue.id)).where(repository_id == id).where(issue_type == t)
CountByType(issues, id, t) ==
    Cardinality({i \in issues : i.repository_id = id /\ i.issue_type = t})

-----------------------------------------------------------------------------
(* The issue aggregation of analyze_repository *)

Max(a, b) == IF a >= b THEN a ELSE b
Min(a, b) == IF a <= b THEN a ELSE b

\* total_issues = sum(severity_counts.values())
TotalIssues(severity_counts) ==
    severity_counts["low"] + severity_counts["medium"]
        + severity_counts["high"] + severity_counts["critical"]

\* base_score - (critical*10 + high*5 + medium*2 + low*1), then max(0, min(100, .))
BaseScore == 100
\* The penalty formula without the final max(0, min(100, score)).
QualityScore_NoClamp(severity_counts) ==
    BaseScore - (severity_counts["critical"] * 10 + severity_counts["high"] * 5 +
                 severity_counts["medium"] * 2 + severity_counts["low"] * 1)

QualityScore(severity_counts) ==
    LET raw == BaseScore - (severity_counts["critical"] * 10 +
                            severity_counts["high"] * 5 +
                            severity_counts["medium"] * 2 +
                            severity_counts["low"] * 1)
    IN  Max(0, Min(100, raw))

-----------------------------------------------------------------------------
(* Inputs: the requests the model sends and the answers GitHub gives *)

HTTPS == <<"h","t","t","p","s",":","/","/">>
GitHubCom == <<"g","i","t","h","u","b",".","c","o","m">>
UrlOR == HTTPS \o GitHubCom \o <<"/","o","/","r">>
UrlOS == HTTPS \o GitHubCom \o <<"/","o","/","s">>
UrlOtherHost == HTTPS \o <<"x",".","i","o">> \o <<"/","o","/","r">>
UrlNoRepo == HTTPS \o GitHubCom \o <<"/","o">>
RequestUrls == {UrlOR, UrlOS, UrlOtherHost, UrlNoRepo}

\* https://github.com/{owner}/{repo}
GitHubUrl(owner, repo) == HTTPS \o GitHubCom \o <<"/">> \o owner \o <<"/">> \o repo

\* The forms a repository URL is sent in: with a trailing slash, with a
\* trailing ".git", without a scheme, and ssh-style.
DotGit == <<".","g","i","t">>
UrlTrailingSlash == UrlOR \o <<"/">>
UrlDotGit == UrlOR \o DotGit
UrlNoScheme == GitHubCom \o <<"/","o","/","r">>
UrlSsh == <<"g","i","t","@">> \o GitHubCom \o <<":","o","/","r">>
UrlSshDotGit == UrlSsh \o DotGit
UrlForms == {UrlOR, UrlTrailingSlash, UrlDotGit, UrlNoScheme, UrlSsh, UrlSshDotGit}

\* Owner and repository names: short, with a hyphen at either end, empty,
\* with a dot, and of 100 and 101 characters.
LongName(n) == [k \in 1..n |-> "a"]
OwnerNames == {<<"o">>, <<"-","o">>, <<"o","-">>, <<"o","-","o">>, <<"O","c","1">>, <<>>,
               LongName(100), LongName(101)}
RepoNames == {<<"r">>, <<"-","r">>, <<"r","-">>, <<"r","_","r">>, <<"r",".","s">>,
              LongName(100), LongName(101)}
UrlNames == {GitHubUrl(owner, <<"r">>) : owner \in OwnerNames}
                \cup {GitHubUrl(<<"o">>, repo) : repo \in RepoNames}
ResolverUrls == UrlForms \cup UrlNames \cup {UrlOtherHost, UrlNoRepo}

\* Authorization header values: absent, well-formed, malformed.
BearerT == <<"B","e","a","r","e","r"," ","t">>
TokenU == <<"T","o","k","e","n"," ","u">>
BasicT == <<"B","a","s","i","c"," ","t">>
AuthorizationHeaders == {None, Some(BearerT), Some(TokenU), Some(BasicT)}

ConfiguredTokens == {None, Some("cfg")}

\* What GET /repos/{owner}/{repo} can return with status 200.
GitHubRepos ==
    {[full_name |-> "o/r", name |-> "r", owner |-> [login |-> "o"],
      description |-> None, html_url |-> UrlOR, stargazers_count |-> Some(5)],
     [full_name |-> "o/s", name |-> "s", owner |-> [login |-> "o"],
      description |-> None, html_url |-> UrlOS, stargazers_count |-> Some(7)]}

\* The outcomes of one HTTP request: a status code, or no response at all.
\* The status code is kept as the text the messages print it as.
UserOutcomes == {"200", "401", "RequestError"}
RepoOutcomes == {"200", "404", "500", "RequestError"}

\* POST /repositories bodies; the last one names a full_name that is not
\* its owner and name joined.
CreateBodies ==
    {[full_name |-> "o/r", name |-> "r", owner |-> "o", url |-> UrlOR,
      description |-> None, stars |-> Some(1)],
     [full_name |-> "o/s", name |-> "r", owner |-> "o", url |-> UrlOtherHost,
      description |-> None, stars |-> None],
     [full_name |-> "o/s", name |-> "x", owner |-> "o", url |-> UrlOS,
      description |-> None, stars |-> None]}

\* PATCH /repositories/{id} bodies: the fields that were sent, with their values.
UpdateBodies ==
    {[code_quality |-> Some(-1)],
     [code_quality |-> Some(101), description |-> Some("d")],
     [code_quality |-> Some(0)], [code_quality |-> None],
     [issues_count |-> Some(-1)]}

\* PATCH bodies of one and of two fields, with values and with nulls.
PatchBodies ==
    {[code_quality |-> Some(-1)], [code_quality |-> Some(0)],
     [code_quality |-> None], [description |-> Some("d")],
     [description |-> None, issues_count |-> Some(1)]}

\* PATCH bodies that set issues_count alone.
CountBodies == {[issues_count |-> Some(1)]}

\* The query parameters of the listings.
Skips == {-1, 0, 1, 2}
Limits == {0, 1, 2, 100, 101}
SeverityFilters == {None, Some("critical")}
IssueTypeFilters == {None, Some("security")}

\* str.upper() of a lower-case letter
Cap(ch) == UpperSeq[CHOOSE i \in 1..26 : LowerSeq[i] = ch]

\* Every casing of a lower-case word.
Casings(word) ==
    {[k \in 1..Len(word) |-> IF k \in ups THEN Cap(word[k]) ELSE word[k]]
     : ups \in SUBSET (1..Len(word))}

\* Strings that are no severity in any casing.
OtherSeverities ==
    {<<>>, <<"l","o">>, <<"l","o","w","s">>, <<"l","0","w">>, <<" ","l","o","w">>,
     <<"i","n","v","a","l","i","d">>, <<"H","I","G","H","E","R">>}
IssueTypeInputs == {"security", "style", "Security", "invalid"}

\* The severities the issues are created with.
SentSeverities ==
    {<<"l","o","w">>, <<"L","O","W">>, <<"H","i","g","h">>, <<"m","e","d","i","u","M">>,
     <<"C","R","I","T","I","C","A","L">>, <<"c","r","i","t","i","c","a","l">>}
        \cup OtherSeverities

\* The (severity, issue_type) of the issue rows the ingestion writes.
IssueKinds == {<<"critical", "security">>, <<"low", "style">>}

\* The same and rows whose severity or issue_type is none of the fixed
\* values: both columns are String columns without a check constraint.
StoredKinds ==
    IssueKinds \cup {<<"blocker", "security">>, <<"low", "typo">>}

-----------------------------------------------------------------------------
(* Credentials: get_github_token and GitHubService.__init__ *)

\* The request validate_github_token sends.
UserRequest(token) ==
    [endpoint |-> "/user", authorization |-> Some("token " \o token)]

\* get_github_token returning None where no token exists at all.
get_github_token_Optional(authorization, configured, user_outcome) ==
    IF ~IsSome(authorization)
    THEN [ok |-> TRUE, token |-> configured, requests |-> <<>>]
    ELSE IF Len(SplitNonEmpty(Get(authorization), " ")) # 2
    THEN [ok |-> FALSE, message |-> "Invalid authorization header format",
          requests |-> <<>>]
    ELSE [ok |-> user_outcome = "200", message |-> "Invalid GitHub token",
          token |-> Some(Join(SplitNonEmpty(Get(authorization), " ")[2])),
          requests |-> <<UserRequest(Join(SplitNonEmpty(Get(authorization), " ")[2]))>>]

\* get_github_token(authorization), given what GET /user would answer:
\* the token handed to the handler, or the AuthenticationException raised,
\* and the requests sent on the way.
get_github_token(authorization, configured, user_outcome) ==
    IF ~IsSome(authorization) \/ Get(authorization) = <<>>
    THEN IF IsSome(configured) /\ Get(configured) # ""
         THEN [ok |-> TRUE, token |-> configured, requests |-> <<>>]
         ELSE [ok |-> FALSE, message |-> "GitHub token required", requests |-> <<>>]
    ELSE LET parts == SplitNonEmpty(Get(authorization), " ")
         IN  IF Len(parts) # 2 \/ Join(ToLower(parts[1])) \notin {"bearer", "token"}
             THEN [ok |-> FALSE, message |-> "Invalid authorization header format",
                   requests |-> <<>>]
             ELSE LET token == Join(parts[2])
                  IN  IF user_outcome = "200"
                      THEN [ok |-> TRUE, token |-> Some(token),
                            requests |-> <<UserRequest(token)>>]
                      ELSE [ok |-> FALSE,
                            message |-> IF user_outcome = "401"
                                        THEN "Invalid GitHub token"
                                        ELSE IF user_outcome = "RequestError"
                                        THEN "Failed to validate GitHub token"
                                        ELSE "GitHub API error: " \o user_outcome,
                            requests |-> <<UserRequest(token)>>]

\* GitHubService.__init__: self.token = token or settings.github_token
ServiceToken(token, configured) ==
    IF IsSome(token) /\ Get(token) # "" THEN token
    ELSE IF IsSome(configured) /\ Get(configured) # "" THEN configured
    ELSE None

\* The request GitHubService.get_repository sends: the Authorization
\* header is set only for a token.
RepoRequest(owner, repo, service_token) ==
    [endpoint |-> "/repos/" \o owner \o "/" \o repo,
     authorization |-> IF IsSome(service_token)
                       THEN Some("token " \o Get(service_token))
                       ELSE None]

\* A client that raises NotFoundException for a 404.
get_repository_NotFound(outcome, body) ==
    IF outcome = "RequestError"
    THEN [ok |-> FALSE, error |-> "ExternalServiceError", status_code |-> 502,
          message |-> "GitHub service error: Request failed"]
    ELSE IF outcome = "404"
    THEN [ok |-> FALSE, error |-> "NotFoundError", status_code |-> 404,
          message |-> "Repository not found"]
    ELSE IF outcome # "200"
    THEN [ok |-> FALSE, error |-> "ExternalServiceError", status_code |-> 502,
          message |-> "GitHub service error: API returned status " \o outcome]
    ELSE [ok |-> TRUE, repo_data |-> Get(body)]

\* GitHubService.get_repository, given GitHub's answer: the JSON body, or
\* the exception raised.
get_repository(outcome, body) ==
    IF outcome = "RequestError"
    THEN [ok |-> FALSE, error |-> "ExternalServiceError", status_code |-> 502,
          message |-> "GitHub service error: Request failed"]
    ELSE IF outcome = "404"
    THEN [ok |-> FALSE, error |-> "ExternalServiceError", status_code |-> 502,
          message |-> "GitHub service error: Repository not found"]
    ELSE IF outcome # "200"
    THEN [ok |-> FALSE, error |-> "ExternalServiceError", status_code |-> 502,
          message |-> "GitHub service error: API returned status " \o outcome]
    ELSE [ok |-> TRUE, repo_data |-> Get(body)]

-----------------------------------------------------------------------------
(* POST /analyze: analyze_repository, one action per suspension point *)

IdleCall ==
    [pc |-> "idle",
     repository_url |-> <<>>,      \* request.repository_url
     authorization |-> None,       \* the Authorization header
     github_token |-> None,        \* what get_github_token returned
     owner |-> "", repo_name |-> "",
     upstream |-> None,            \* what GitHub answered the repository request with
     caught |-> None,              \* the exception get_repository raised
     repo_data |-> None,
     repository |-> None,          \* the session's Repository object
     severity_counts |-> <<>>,
     type_counts |-> <<>>,
     requests |-> <<>>,            \* the HTTP requests sent, in order
     steps |-> <<>>,               \* the steps taken, in order
     response |-> None,
     error |-> None]

\* The call ends with an exception: the session rolls back (get_db).
Raise(f, error, status_code, message) ==
    [f EXCEPT !.pc = "done",
              !.error = Some([error |-> error, status_code |-> status_code,
                              message |-> message])]

\* The request arrives; FastAPI resolves the dependency get_github_token and
\* validates the body (AnalysisRequest.validate_url) before the handler runs.
Begin(c, url, authorization, user_outcome) ==
    /\ call[c].pc = "idle"
    /\ LET tok == get_github_token(authorization, github_token, user_outcome)
           verdict == validate_github_url(url)
           f == [call[c] EXCEPT !.repository_url = url,
                                !.authorization = authorization,
                                !.github_token = IF tok.ok THEN tok.token ELSE None,
                                !.requests = tok.requests]
       IN  call' = [call EXCEPT ![c] =
                IF ~tok.ok
                THEN Raise(f, "AuthenticationError", 401, tok.message)
                ELSE IF verdict # "ok"
                THEN Raise(f, "ValidationError", 422, verdict)
                ELSE [f EXCEPT !.pc = "resolve"]]
    /\ UNCHANGED <<repositories, code_issues, next_repo_id, next_issue_id,
                   github_token>>

\* owner, repo_name = extract_repo_info(request.repository_url)
Resolve(c) ==
    /\ call[c].pc = "resolve"
    /\ LET info == extract_repo_info(call[c].repository_url)
           f == [call[c] EXCEPT !.steps = Append(@, "resolve")]
       IN  call' = [call EXCEPT ![c] =
                IF ~info.ok
                THEN Raise(f, info.error, 422, info.message)
                ELSE [f EXCEPT !.pc = "fetch", !.owner = info.owner,
                               !.repo_name = info.repo]]
    /\ UNCHANGED <<repositories, code_issues, next_repo_id, next_issue_id,
                   github_token>>

\* The bodies GitHub can answer (owner, repo) with.
Catalogue(owner, repo) ==
    {d \in GitHubRepos : d.owner.login = owner /\ d.name = repo}

\* A fetch that asks again after a failure.
Fetch_Retry(c, outcome, body) ==
    /\ call[c].pc = "fetch"
    /\ outcome = "200" =>
           body \in {Some(d) : d \in Catalogue(call[c].owner, call[c].repo_name)}
    /\ outcome # "200" => body = None
    /\ LET f == [call[c] EXCEPT
                    !.steps = Append(@, "fetch"),
                    !.upstream = Some(outcome),
                    !.requests = Append(@, RepoRequest(call[c].owner, call[c].repo_name,
                                     ServiceToken(call[c].github_token, github_token)))]
       IN  call' = [call EXCEPT ![c] =
                IF outcome # "200" THEN f
                ELSE [f EXCEPT !.pc = "lookup", !.repo_data = body]]
    /\ UNCHANGED <<repositories, code_issues, next_repo_id, next_issue_id,
                   github_token>>

\* github_service = GitHubService(token=github_token)
\* repo_data = await github_service.get_repository(owner, repo_name),
\* any exception re-raised as a ValidationException.
Fetch(c, outcome, body) ==
    /\ call[c].pc = "fetch"
    /\ outcome = "200" =>
           body \in {Some(d) : d \in Catalogue(call[c].owner, call[c].repo_name)}
    /\ outcome # "200" => body = None
    /\ LET service_token == ServiceToken(call[c].github_token, github_token)
           got == get_repository(outcome, body)
           f == [call[c] EXCEPT
                    !.steps = Append(@, "fetch"),
                    !.upstream = Some(outcome),
                    !.caught = IF got.ok THEN None
                               ELSE Some([error |-> got.error,
                                          status_code |-> got.status_code,
                                          message |-> got.message]),
                    !.requests = Append(@, RepoRequest(call[c].owner,
                                               call[c].repo_name, service_token))]
       IN  call' = [call EXCEPT ![c] =
                IF ~got.ok
                THEN Raise(f, "ValidationError", 422,
                           "Failed to fetch repository from GitHub: 502: " \o got.message)
                ELSE [f EXCEPT !.pc = "lookup", !.repo_data = Some(got.repo_data)]]
    /\ UNCHANGED <<repositories, code_issues, next_repo_id, next_issue_id,
                   github_token>>

\* A lookup that never finds the row.
Lookup_NeverFound(c) ==
    /\ call[c].pc = "lookup"
    /\ call' = [call EXCEPT ![c] =
            [@ EXCEPT !.steps = Append(@, "lookup"), !.pc = "insert"]]
    /\ UNCHANGED <<repositories, code_issues, next_repo_id, next_issue_id,
                   github_token>>

\* A lookup that writes the fetched metadata into the row it finds.
Lookup_Refresh(c) ==
    /\ call[c].pc = "lookup"
    /\ LET repo_data == Get(call[c].repo_data)
           found == ByFullName(repositories, repo_data.full_name)
           f == [call[c] EXCEPT !.steps = Append(@, "lookup")]
           fresh(r) == [r EXCEPT !.description = repo_data.description,
                                 !.url = repo_data.html_url,
                                 !.stars = repo_data.stargazers_count]
       IN  /\ call' = [call EXCEPT ![c] =
                  IF Cardinality(found) > 1
                  THEN Raise(f, "MultipleResultsFound", 500, "Internal Server Error")
                  ELSE IF found = {}
                  THEN [f EXCEPT !.pc = "insert"]
                  ELSE [f EXCEPT !.pc = "count_severity",
                                 !.repository = Some(fresh(CHOOSE r \in found : TRUE))]]
           /\ repositories' = IF Cardinality(found) = 1
                              THEN (repositories \ found) \cup {fresh(r) : r \in found}
                              ELSE repositories
    /\ UNCHANGED <<code_issues, next_repo_id, next_issue_id, github_token>>

\* result = await db.execute(select(Repository).where(full_name == ...))
\* repository = result.scalar_one_or_none()
Lookup(c) ==
    /\ call[c].pc = "lookup"
    /\ LET found == ByFullName(repositories, Get(call[c].repo_data).full_name)
           f == [call[c] EXCEPT !.steps = Append(@, "lookup")]
       IN  call' = [call EXCEPT ![c] =
                IF Cardinality(found) > 1
                THEN Raise(f, "MultipleResultsFound", 500, "Internal Server Error")
                ELSE IF found = {}
                THEN [f EXCEPT !.pc = "insert"]
                ELSE [f EXCEPT !.pc = "count_severity",
                               !.repository = Some(CHOOSE r \in found : TRUE)]]
    /\ UNCHANGED <<repositories, code_issues, next_repo_id, next_issue_id,
                   github_token>>

\* RepositoryCreate(full_name=repo_data["full_name"], ...)
CreateFromRepoData(repo_data) ==
    [full_name |-> repo_data.full_name,
     name |-> repo_data.name,
     owner |-> repo_data.owner.login,
     url |-> repo_data.html_url,
     description |-> repo_data.description,
     stars |-> repo_data.stargazers_count]

\* An insert that looks the full_name up again and reuses the row it finds.
Insert_Upsert(c) ==
    /\ call[c].pc = "insert"
    /\ LET body == CreateFromRepoData(Get(call[c].repo_data))
           found == ByFullName(repositories, body.full_name)
           row == Repository(next_repo_id, body)
           f == [call[c] EXCEPT !.steps = Append(@, "insert")]
       IN  IF found # {}
           THEN /\ call' = [call EXCEPT ![c] =
                        [f EXCEPT !.pc = "count_severity",
                                  !.repository = Some(CHOOSE r \in found : TRUE)]]
                /\ UNCHANGED <<repositories, next_repo_id>>
           ELSE /\ next_repo_id <= MaxRepoId
                /\ repositories' = repositories \cup {row}
                /\ next_repo_id' = next_repo_id + 1
                /\ call' = [call EXCEPT ![c] =
                        [f EXCEPT !.pc = "count_severity", !.repository = Some(row)]]
    /\ UNCHANGED <<code_issues, next_issue_id, github_token>>

\* repository = Repository(**repo_create.model_dump()); db.add(repository)
\* await db.commit(); await db.refresh(repository)
Insert(c) ==
    /\ call[c].pc = "insert"
    /\ LET body == CreateFromRepoData(Get(call[c].repo_data))
           verdict == validate_github_url(body.url)
           row == Repository(next_repo_id, body)
           f == [call[c] EXCEPT !.steps = Append(@, "insert")]
       IN  IF verdict # "ok"
           THEN /\ call' = [call EXCEPT ![c] = Raise(f, "ValidationError", 422, verdict)]
                /\ UNCHANGED <<repositories, next_repo_id>>
           ELSE IF ByFullName(repositories, body.full_name) # {}
           THEN /\ call' = [call EXCEPT ![c] =
                        Raise(f, "IntegrityError", 500, "Internal Server Error")]
                /\ UNCHANGED <<repositories, next_repo_id>>
           ELSE /\ next_repo_id <= MaxRepoId
                /\ repositories' = repositories \cup {row}
                /\ next_repo_id' = next_repo_id + 1
                /\ call' = [call EXCEPT ![c] =
                        [f EXCEPT !.pc = "count_severity", !.repository = Some(row)]]
    /\ UNCHANGED <<code_issues, next_issue_id, github_token>>

\* for severity in ["low", "medium", "high", "critical"]: one count query each
CountSeverity(c) ==
    /\ call[c].pc = "count_severity"
    /\ LET i == Cardinality(DOMAIN call[c].severity_counts) + 1
           severity == Severities[i]
           n == CountBySeverity(code_issues, Get(call[c].repository).id, severity)
       IN  call' = [call EXCEPT ![c] =
                [@ EXCEPT !.severity_counts = @ @@ (severity :> n),
                          !.steps = Append(@, "count"),
                          !.pc = IF i = Len(Severities) THEN "count_type"
                                 ELSE "count_severity"]]
    /\ UNCHANGED <<repositories, code_issues, next_repo_id, next_issue_id,
                   github_token>>

\* A loop over the issue types that stops after the first query.
CountType_FirstOnly(c) ==
    /\ call[c].pc = "count_type"
    /\ call' = [call EXCEPT ![c] =
            [@ EXCEPT !.type_counts =
                          @ @@ (IssueTypes[1] :>
                                  CountByType(code_issues, Get(call[c].repository).id,
                                              IssueTypes[1])),
                      !.steps = Append(@, "count"),
                      !.pc = "persist"]]
    /\ UNCHANGED <<repositories, code_issues, next_repo_id, next_issue_id,
                   github_token>>

\* for issue_type in ["security", ..., "style"]: one count query each
CountType(c) ==
    /\ call[c].pc = "count_type"
    /\ LET i == Cardinality(DOMAIN call[c].type_counts) + 1
           issue_type == IssueTypes[i]
           n == CountByType(code_issues, Get(call[c].repository).id, issue_type)
       IN  call' = [call EXCEPT ![c] =
                [@ EXCEPT !.type_counts = @ @@ (issue_type :> n),
                          !.steps = Append(@, "count"),
                          !.pc = IF i = Len(IssueTypes) THEN "persist"
                                 ELSE "count_type"]]
    /\ UNCHANGED <<repositories, code_issues, next_repo_id, next_issue_id,
                   github_token>>

\* An UPDATE without the WHERE on the primary key.
Flush_AllRows(rows, loaded, code_quality, issues_count) ==
    {[r EXCEPT !.code_quality = code_quality, !.issues_count = issues_count]
     : r \in rows}

\* An UPDATE of code_quality alone.
Flush_ScoreOnly(rows, loaded, code_quality, issues_count) ==
    {IF r.id # loaded.id THEN r ELSE [r EXCEPT !.code_quality = code_quality]
     : r \in rows}

\* An UPDATE that adds the new issues_count to the stored one.
Flush_Accumulate(rows, loaded, code_quality, issues_count) ==
    {IF r.id # loaded.id THEN r
     ELSE [r EXCEPT !.code_quality = code_quality,
                    !.issues_count = IF IsSome(@) THEN Some(Get(@) + Get(issues_count))
                                     ELSE issues_count]
     : r \in rows}

\* The UPDATE the session flushes for an object: the columns whose value
\* differs from the one loaded, on the row with the object's id.
Flush(rows, loaded, code_quality, issues_count) ==
    {IF r.id # loaded.id THEN r
     ELSE [r EXCEPT !.code_quality = IF loaded.code_quality # code_quality
                                     THEN code_quality ELSE @,
                    !.issues_count = IF loaded.issues_count # issues_count
                                     THEN issues_count ELSE @,
                    !.last_updated = IF \/ loaded.code_quality # code_quality
                                        \/ loaded.issues_count # issues_count
                                     THEN utcnow ELSE @]
     : r \in rows}

\* repository.code_quality = score; repository.issues_count = total_issues
\* await db.commit()
Persist(c) ==
    /\ call[c].pc = "persist"
    /\ LET loaded == Get(call[c].repository)
           total_issues == TotalIssues(call[c].severity_counts)
           quality == QualityScore(call[c].severity_counts)
           dirty == \/ loaded.code_quality # Some(quality)
                    \/ loaded.issues_count # Some(total_issues)
           f == [call[c] EXCEPT !.steps = Append(@, "persist")]
       IN  IF dirty /\ ById(repositories, loaded.id) = {}
           THEN /\ call' = [call EXCEPT ![c] =
                        Raise(f, "StaleDataError", 500, "Internal Server Error")]
                /\ UNCHANGED repositories
           ELSE /\ repositories' = Flush(repositories, loaded,
                                         Some(quality), Some(total_issues))
                /\ call' = [call EXCEPT ![c] =
                        [f EXCEPT !.pc = "respond",
                                  !.repository =
                                      Some([loaded EXCEPT
                                            !.code_quality = Some(quality),
                                            !.issues_count = Some(total_issues),
                                            !.last_updated =
                                                IF dirty THEN utcnow ELSE @])]]
    /\ UNCHANGED <<code_issues, next_repo_id, next_issue_id, github_token>>

\* return AnalysisResponse(...)
Respond(c) ==
    /\ call[c].pc = "respond"
    /\ LET repository == Get(call[c].repository)
       IN  call' = [call EXCEPT ![c] =
                [@ EXCEPT !.pc = "done",
                          !.steps = Append(@, "return"),
                          !.response =
                              Some([repository_id |-> repository.id,
                                    total_issues |-> TotalIssues(call[c].severity_counts),
                                    issues_by_severity |-> call[c].severity_counts,
                                    issues_by_type |-> call[c].type_counts,
                                    code_quality_score |-> Get(repository.code_quality)])]]
    /\ UNCHANGED <<repositories, code_issues, next_repo_id, next_issue_id,
                   github_token>>

\* The pcs at which the handler awaits the database.
StorePcs == {"lookup", "insert", "count_severity", "count_type", "persist"}

\* A handler that commits code_quality, then fails before issues_count.
DbFailure_HalfWritten(c) ==
    /\ call[c].pc \in StorePcs
    /\ call' = [call EXCEPT ![c] =
            Raise(@, "InternalServerError", 500, "Internal Server Error")]
    /\ repositories' =
           IF call[c].pc # "persist" THEN repositories
           ELSE {IF r.id # Get(call[c].repository).id THEN r
                 ELSE [r EXCEPT !.code_quality =
                                    Some(QualityScore(call[c].severity_counts))]
                 : r \in repositories}
    /\ UNCHANGED <<code_issues, next_repo_id, next_issue_id, github_token>>

\* await db.execute(...) or await db.commit() raises (the database is
\* unreachable, the statement fails): the exception leaves the handler,
\* get_db rolls the session back, nothing of the statement is committed.
DbFailure(c) ==
    /\ call[c].pc \in StorePcs
    /\ call' = [call EXCEPT ![c] =
            Raise(@, "InternalServerError", 500, "Internal Server Error")]
    /\ UNCHANGED <<repositories, code_issues, next_repo_id, next_issue_id,
                   github_token>>

-----------------------------------------------------------------------------
(* The CRUD handlers of app/api/endpoints/repositories.py, each one request *)

\* RepositoryUpdate with ge=0 only on code_quality.
ValidUpdate_NoUpperBound(body) ==
    /\ ("code_quality" \in DOMAIN body /\ IsSome(body.code_quality))
           => Get(body.code_quality) >= 0
    /\ ("issues_count" \in DOMAIN body /\ IsSome(body.issues_count))
           => Get(body.issues_count) >= 0

\* RepositoryUpdate: code_quality in [0, 100], issues_count >= 0, when given.
ValidUpdate(body) ==
    /\ ("code_quality" \in DOMAIN body /\ IsSome(body.code_quality))
           => (Get(body.code_quality) >= 0 /\ Get(body.code_quality) <= 100)
    /\ ("issues_count" \in DOMAIN body /\ IsSome(body.issues_count))
           => Get(body.issues_count) >= 0

\* repository_update.model_dump(exclude_none=True): a null is not applied.
ApplyUpdate_ExcludeNone(row, body) ==
    [field \in DOMAIN row |->
        IF field \in DOMAIN body /\ body[field] # None THEN body[field]
        ELSE IF field = "last_updated"
                /\ \E g \in DOMAIN body : body[g] # None /\ body[g] # row[g]
        THEN utcnow
        ELSE row[field]]

\* for field, value in update_data.items(): setattr(repository, field, value)
\* await db.commit(): the UPDATE, sent when an attribute changed, also sets
\* last_updated.
ApplyUpdate(row, body) ==
    [field \in DOMAIN row |->
        IF field \in DOMAIN body THEN body[field]
        ELSE IF field = "last_updated" /\ \E g \in DOMAIN body : body[g] # row[g]
        THEN utcnow
        ELSE row[field]]

\* A store without the unique constraint on full_name.
CreateStatus_NoUnique(rows, body) ==
    IF validate_github_url(body.url) # "ok" THEN 422 ELSE 201

\* The status POST /repositories answers with: 422 from the validator of
\* RepositoryCreate.url, 500 when the commit breaks the unique full_name.
CreateStatus(rows, body) ==
    IF validate_github_url(body.url) # "ok" THEN 422
    ELSE IF ByFullName(rows, body.full_name) # {} THEN 500
    ELSE 201

\* POST /repositories
CreateRepository(body) ==
    /\ IF CreateStatus(repositories, body) # 201
       THEN UNCHANGED <<repositories, next_repo_id>>
       ELSE /\ next_repo_id <= MaxRepoId
            /\ repositories' = repositories \cup {Repository(next_repo_id, body)}
            /\ next_repo_id' = next_repo_id + 1
    /\ UNCHANGED <<code_issues, next_issue_id, github_token, call>>

\* A PATCH that does not look the repository up.
UpdateStatus_NoLookup(rows, repository_id, body) ==
    IF ~ValidUpdate(body) THEN 422 ELSE 200

\* The status PATCH /repositories/{repository_id} answers with.
UpdateStatus(rows, repository_id, body) ==
    IF ~ValidUpdate(body) THEN 422
    ELSE IF ById(rows, repository_id) = {} THEN 404
    ELSE 200

\* PATCH /repositories/{repository_id}
UpdateRepository(repository_id, body) ==
    /\ IF UpdateStatus(repositories, repository_id, body) # 200
       THEN UNCHANGED repositories
       ELSE repositories' = {IF r.id = repository_id THEN ApplyUpdate(r, body) ELSE r
                             : r \in repositories}
    /\ UNCHANGED <<code_issues, next_repo_id, next_issue_id, github_token, call>>

\* The status DELETE /repositories/{repository_id} answers with.
DeleteStatus(rows, repository_id) ==
    IF ById(rows, repository_id) = {} THEN 404 ELSE 204

\* A delete that leaves the issues of the repository behind.
DeleteRepository_NoCascade(repository_id) ==
    /\ repositories' = {r \in repositories : r.id # repository_id}
    /\ UNCHANGED <<code_issues, next_repo_id, next_issue_id, github_token, call>>

\* DELETE /repositories/{repository_id}; the relationship code_issues
\* cascades the delete to the issues of the repository.
DeleteRepository(repository_id) ==
    /\ IF DeleteStatus(repositories, repository_id) # 204
       THEN UNCHANGED <<repositories, code_issues>>
       ELSE /\ repositories' = {r \in repositories : r.id # repository_id}
            /\ code_issues' = {i \in code_issues : i.repository_id # repository_id}
    /\ UNCHANGED <<next_repo_id, next_issue_id, github_token, call>>

\* The status GET /repositories/{repository_id} answers with.
GetStatus(rows, repository_id) ==
    IF ById(rows, repository_id) = {} THEN 404 ELSE 200

\* GET /repositories/{repository_id}: reads, writes nothing.
GetRepository(repository_id) ==
    /\ GetStatus(repositories, repository_id) \in {200, 404}
    /\ UNCHANGED vars

\* Query(100, ge=1, le=100)
MaxLimit == 100

\* skip: int = Query(0, ge=0); limit: int = Query(100, ge=1, le=100)
ValidPage(skip, limit) == skip >= 0 /\ limit >= 1 /\ limit <= MaxLimit

\* A page that starts at the first row whatever skip is.
Slice_IgnoreSkip(rows, skip, limit) == SubSeq(rows, 1, Min(Len(rows), limit))

\* .offset(skip).limit(limit) of the ordered rows
Slice(rows, skip, limit) == SubSeq(rows, skip + 1, Min(Len(rows), skip + limit))

\* .order_by(Repository.id.desc())
RECURSIVE ByIdDesc(_)
ByIdDesc(rows) ==
    IF rows = {} THEN <<>>
    ELSE LET first == CHOOSE r \in rows : \A q \in rows : q.id <= r.id
         IN  <<first>> \o ByIdDesc(rows \ {first})

\* The order of the stored severities as text.
SeverityOrder == <<"critical", "high", "low", "medium">>
SeverityRank(severity) == CHOOSE k \in DOMAIN SeverityOrder : SeverityOrder[k] = severity

\* .order_by(CodeIssue.severity, CodeIssue.id)
RECURSIVE BySeverityId(_)
BySeverityId(issues) ==
    IF issues = {} THEN <<>>
    ELSE LET first == CHOOSE i \in issues : \A j \in issues :
                          \/ SeverityRank(i.severity) < SeverityRank(j.severity)
                          \/ /\ i.severity = j.severity
                             /\ i.id <= j.id
         IN  <<first>> \o BySeverityId(issues \ {first})

\* GET /repositories?skip=&limit=: the answer.
list_repositories(rows, skip, limit) ==
    IF ~ValidPage(skip, limit) THEN [status |-> 422, body |-> <<>>]
    ELSE [status |-> 200, body |-> Slice(ByIdDesc(rows), skip, limit)]

\* GET /repositories: reads, writes nothing.
ListRepositories(skip, limit) ==
    /\ list_repositories(repositories, skip, limit).status \in {200, 422}
    /\ UNCHANGED vars

\* query.where(...) for the filters that are given
Selected(issues, repository_id, severity, issue_type) ==
    {i \in issues :
        /\ i.repository_id = repository_id
        /\ (IsSome(severity) /\ Get(severity) # "") => i.severity = Get(severity)
        /\ (IsSome(issue_type) /\ Get(issue_type) # "") => i.issue_type = Get(issue_type)}

\* GET /repositories/{repository_id}/issues: the answer.
get_repository_issues(rows, issues, repository_id, severity, issue_type, skip, limit) ==
    IF ~ValidPage(skip, limit) THEN [status |-> 422, body |-> <<>>]
    ELSE IF ById(rows, repository_id) = {} THEN [status |-> 404, body |-> <<>>]
    ELSE [status |-> 200,
          body |-> Slice(BySeverityId(Selected(issues, repository_id, severity,
                                               issue_type)), skip, limit)]

\* GET /repositories/{repository_id}/issues: reads, writes nothing.
GetRepositoryIssues(repository_id, severity, issue_type, skip, limit) ==
    /\ get_repository_issues(repositories, code_issues, repository_id, severity,
                             issue_type, skip, limit).status \in {200, 404, 422}
    /\ UNCHANGED vars

\* An issue that passes through CodeIssueCreate: severity and issue_type
\* are validated, the row holds what the validators return, and a refused
\* issue is not stored.
CreateIssue(repository_id, severity, issue_type) ==
    /\ next_issue_id <= MaxIssueId
    /\ ById(repositories, repository_id) # {}
    /\ IF validate_severity(severity).ok /\ validate_issue_type(issue_type).ok
       THEN /\ code_issues' = code_issues \cup
                   {CodeIssue(next_issue_id, repository_id,
                              Join(validate_severity(severity).value),
                              validate_issue_type(issue_type).value)}
            /\ next_issue_id' = next_issue_id + 1
       ELSE UNCHANGED <<code_issues, next_issue_id>>
    /\ UNCHANGED <<repositories, next_repo_id, github_token, call>>

\* The ingestion of issues, which is not part of the service: a row of
\* code_issues appears for a stored repository (the foreign key).
IngestIssue(repository_id, kind) ==
    /\ next_issue_id <= MaxIssueId
    /\ ById(repositories, repository_id) # {}
    /\ code_issues' = code_issues \cup
           {CodeIssue(next_issue_id, repository_id, kind[1], kind[2])}
    /\ next_issue_id' = next_issue_id + 1
    /\ UNCHANGED <<repositories, next_repo_id, github_token, call>>

-----------------------------------------------------------------------------
(* The service: CRUD requests, issue ingestion and analysis calls, interleaved *)

Init ==
    /\ repositories = {}
    /\ code_issues = {}
    /\ next_repo_id = 1
    /\ next_issue_id = 1
    /\ github_token \in ConfiguredTokens
    /\ call = [c \in Calls |-> IdleCall]

\* The steps of the analysis calls cs, begun with the given requests.
Analyze(cs, urls, headers) ==
    \/ \E c \in cs, url \in urls, a \in headers, u \in UserOutcomes :
          Begin(c, url, a, u)
    \/ \E c \in cs : Resolve(c)
    \/ \E c \in cs, o \in RepoOutcomes,
          b \in {None} \cup {Some(d) : d \in GitHubRepos} : Fetch(c, o, b)
    \/ \E c \in cs : Lookup(c)
    \/ \E c \in cs : Insert(c)
    \/ \E c \in cs : CountSeverity(c)
    \/ \E c \in cs : CountType(c)
    \/ \E c \in cs : Persist(c)
    \/ \E c \in cs : Respond(c)

\* Any CRUD request with the given bodies.
Crud(create_bodies, update_bodies) ==
    \/ \E body \in create_bodies : CreateRepository(body)
    \/ \E id \in 1..MaxRepoId, body \in update_bodies : UpdateRepository(id, body)
    \/ \E id \in 1..MaxRepoId : DeleteRepository(id)

Ingest ==
    \E id \in 1..MaxRepoId, kind \in IssueKinds : IngestIssue(id, kind)

\* One analysis call among any CRUD requests and ingestion, interleaved.
Next ==
    \/ Analyze({"c1"}, {UrlOR, UrlOtherHost, UrlNoRepo}, {None})
    \/ Crud(CreateBodies, {b \in UpdateBodies : b # [code_quality |-> None]})
    \/ Ingest

Spec == Init /\ [][Next]_vars

-----------------------------------------------------------------------------
(* A store that already holds a repository with many issues *)

\* The rows of n issues of one severity, numbered from first.
IssueRows(first, n, severity) ==
    {CodeIssue(first + k, 1, severity, IssueTypes[((first + k) % 6) + 1])
     : k \in 0..(n - 1)}

InitScore ==
    /\ repositories = {Repository(1, CHOOSE b \in CreateBodies : b.full_name = "o/r")}
    /\ \E nc \in 0..MaxCritical, nh \in 0..MaxHigh, nm \in 0..MaxMedium, nl \in 0..MaxLow :
          /\ code_issues = IssueRows(1, nc, "critical")
                             \cup IssueRows(1 + nc, nh, "high")
                             \cup IssueRows(1 + nc + nh, nm, "medium")
                             \cup IssueRows(1 + nc + nh + nm, nl, "low")
          /\ next_issue_id = 1 + nc + nh + nm + nl
    /\ next_repo_id = 2
    /\ github_token = Some("cfg")
    /\ call = [c \in Calls |-> IdleCall]

NextScore ==
    \/ Analyze({"c1"}, {UrlOR}, {None})
    \/ Crud({b \in CreateBodies : b.full_name = "o/r"},
            {b \in UpdateBodies : "code_quality" \in DOMAIN b /\ IsSome(b.code_quality)})

SpecScore == InitScore /\ [][NextScore]_vars

-----------------------------------------------------------------------------
(* One analysis call with any Authorization header *)

NextAuth ==
    \/ Analyze({"c1"}, RequestUrls, AuthorizationHeaders)
    \/ Ingest

SpecAuth == Init /\ [][NextAuth]_vars

-----------------------------------------------------------------------------
(* Sequential execution: a request begins when no analysis call is running *)

InProgress(c) == call[c].pc \notin {"idle", "done"}

Quiet == \A c \in Calls : ~InProgress(c)

InitSeq ==
    /\ repositories = {}
    /\ code_issues = {}
    /\ next_repo_id = 1
    /\ next_issue_id = 1
    /\ github_token = Some("cfg")
    /\ call = [c \in Calls |-> IdleCall]

NextSeq ==
    \/ \E c \in Calls :
          /\ \A d \in Calls \ {c} : ~InProgress(d)
          /\ Analyze({c}, {UrlOR, UrlOS}, {None})
    \/ Quiet /\ \E body \in CreateBodies : CreateRepository(body)
    \/ Quiet /\ \E id \in 1..MaxRepoId : DeleteRepository(id)
    \/ Quiet /\ Ingest

SpecSeq == InitSeq /\ [][NextSeq]_vars

-----------------------------------------------------------------------------
(* Analysis calls in succession, nothing else touching the store *)

InitTwice == InitSeq \/ InitScore

NextTwice ==
    \E c \in Calls :
        /\ \A d \in Calls \ {c} : ~InProgress(d)
        /\ Analyze({c}, {UrlOR, UrlOS}, {None})

SpecTwice == InitTwice /\ [][NextTwice]_vars

-----------------------------------------------------------------------------
(* Analysis calls one at a time, with a database that can fail *)

NextFail ==
    \/ \E c \in Calls :
          /\ \A d \in Calls \ {c} : ~InProgress(d)
          /\ Analyze({c}, {UrlOR}, {None})
    \/ \E c \in Calls : DbFailure(c)
    \/ Quiet /\ Ingest

SpecFail == InitSeq /\ [][NextFail]_vars

-----------------------------------------------------------------------------
(* Two analysis calls and create requests, interleaved *)

NextRace ==
    \/ Analyze(Calls, {UrlOR}, {None})
    \/ \E body \in CreateBodies : CreateRepository(body)

SpecRace == InitSeq /\ [][NextRace]_vars

-----------------------------------------------------------------------------
(* Two analysis calls of a repository that was stored and patched before,
   while issues are ingested *)

NoneBegun == \A c \in Calls : call[c].pc = "idle"

NextLast ==
    \/ /\ NoneBegun
       /\ \E body \in {b \in CreateBodies : b.full_name = "o/r"} : CreateRepository(body)
    \/ /\ NoneBegun
       /\ \E id \in 1..MaxRepoId, body \in CountBodies : UpdateRepository(id, body)
    \/ Analyze(Calls, {UrlOR}, {None})
    \/ Ingest

SpecLast == InitSeq /\ [][NextLast]_vars

-----------------------------------------------------------------------------
(* Analysis calls with repository URLs of every form and name *)

NextResolve ==
    \/ Analyze({"c1"}, ResolverUrls, {None})
    \/ Ingest

SpecResolve == Init /\ [][NextResolve]_vars

-----------------------------------------------------------------------------
(* Issues created through the schema, among CRUD requests *)

NextSeverity ==
    \/ \E body \in CreateBodies : CreateRepository(body)
    \/ \E id \in 1..MaxRepoId : DeleteRepository(id)
    \/ \E id \in 1..MaxRepoId, severity \in SentSeverities,
          issue_type \in IssueTypeInputs : CreateIssue(id, severity, issue_type)

SpecSeverity == Init /\ [][NextSeverity]_vars

-----------------------------------------------------------------------------
(* The CRUD handlers and the listings over any store *)

\* The stores the listings are read from hold at most MaxListed issues.
MaxListed == 4

InitRead ==
    \/ Init
    \/ InitScore /\ Cardinality(code_issues) <= MaxListed

Reads ==
    \/ \E id \in 1..(MaxRepoId + 1) : GetRepository(id)
    \/ \E skip \in Skips, limit \in Limits : ListRepositories(skip, limit)
    \/ \E id \in 1..(MaxRepoId + 1), severity \in SeverityFilters,
          issue_type \in IssueTypeFilters, skip \in Skips, limit \in Limits :
          GetRepositoryIssues(id, severity, issue_type, skip, limit)

NextRead ==
    \/ Crud(CreateBodies, UpdateBodies)
    \/ Ingest
    \/ Reads

SpecRead == InitRead /\ [][NextRead]_vars

-----------------------------------------------------------------------------
(* Properties *)

\* clamp(100 - (10*critical + 5*high + 2*medium + 1*low), 0, 100)
ClampedPenalty(critical, high, medium, low) ==
    LET raw == 100 - (10 * critical + 5 * high + 2 * medium + 1 * low)
    IN  IF raw < 0 THEN 0 ELSE IF raw > 100 THEN 100 ELSE raw

\* The summary has exactly these severity counts.
HasCounts(n, critical, high, medium, low) ==
    n = [s \in {"low", "medium", "high", "critical"} |->
            CASE s = "critical" -> critical [] s = "high" -> high
              [] s = "medium" -> medium [] OTHER -> low]

\* C1: for every combination of per-severity counts the score analyze
\* returns is clamp(100 - (10*critical + 5*high + 2*medium + low), 0, 100):
\* no issues give 100, one critical 90, eleven criticals 0, one critical and
\* two high 80.
C1_ScoreIsClampedPenalty ==
    \A c \in Calls : IsSome(call[c].response) =>
        LET r == Get(call[c].response)
            n == r.issues_by_severity
        IN  /\ r.code_quality_score =
                   ClampedPenalty(n["critical"], n["high"], n["medium"], n["low"])
            /\ HasCounts(n, 0, 0, 0, 0) => r.code_quality_score = 100
            /\ HasCounts(n, 1, 0, 0, 0) => r.code_quality_score = 90
            /\ HasCounts(n, 11, 0, 0, 0) => r.code_quality_score = 0
            /\ HasCounts(n, 1, 2, 0, 0) => r.code_quality_score = 80

\* An analysis of eleven critical issues has answered with score 0.
C1_Witness ==
    \E c \in Calls : /\ IsSome(call[c].response)
                     /\ HasCounts(Get(call[c].response).issues_by_severity, 11, 0, 0, 0)
                     /\ Get(call[c].response).code_quality_score = 0

\* A PATCH body carrying a code_quality outside [0, 100].
OutOfRange(body) ==
    /\ "code_quality" \in DOMAIN body
    /\ IsSome(body.code_quality)
    /\ (Get(body.code_quality) < 0 \/ Get(body.code_quality) > 100)

\* C2: in every reachable state each repository's code_quality is unset or
\* in [0, 100]; a PATCH carrying a code_quality outside [0, 100] is answered
\* 422 and leaves the rows unchanged.
C2_CodeQualityInRange ==
    /\ [](\A r \in repositories :
            r.code_quality = None \/ Get(r.code_quality) \in 0..100)
    /\ [](\A id \in 1..MaxRepoId, body \in UpdateBodies :
            OutOfRange(body) => UpdateStatus(repositories, id, body) = 422)
    /\ [][\A id \in 1..MaxRepoId, body \in UpdateBodies :
            (OutOfRange(body) /\ UpdateRepository(id, body))
                => repositories' = repositories]_vars

\* An analysis whose penalty exceeded 100 has stored code_quality 0 in its row.
C2_Witness ==
    \E c \in Calls, r \in repositories :
        /\ IsSome(call[c].response)
        /\ Get(call[c].response).repository_id = r.id
        /\ Get(call[c].response).issues_by_severity["critical"] >= 11
        /\ r.code_quality = Some(0)


\* The call c took a step.
Stepped(c) == call'[c] # call[c]

\* C3: the summary has exactly the four severity keys and the six type keys,
\* each value is the number of stored issues of the repository with that
\* severity (issue type) when it is counted, 0 when there are none, and
\* total_issues is the sum of the four severity counts.
C3_SummaryCounts ==
    /\ [](\A c \in Calls : IsSome(call[c].response) =>
            LET r == Get(call[c].response)
                n == r.issues_by_severity
            IN  /\ DOMAIN n = {"low", "medium", "high", "critical"}
                /\ DOMAIN r.issues_by_type =
                       {"security", "performance", "codeQuality",
                        "accessibility", "bug", "style"}
                /\ \A k \in DOMAIN n : n[k] \in Nat
                /\ \A k \in DOMAIN r.issues_by_type : r.issues_by_type[k] \in Nat
                /\ r.total_issues =
                       n["low"] + n["medium"] + n["high"] + n["critical"])
    /\ [][\A c \in Calls :
            /\ \A k \in DOMAIN call'[c].severity_counts \ DOMAIN call[c].severity_counts :
                  call'[c].severity_counts[k] =
                      Cardinality({i \in code_issues :
                                      /\ i.repository_id = Get(call[c].repository).id
                                      /\ i.severity = k})
            /\ \A k \in DOMAIN call'[c].type_counts \ DOMAIN call[c].type_counts :
                  call'[c].type_counts[k] =
                      Cardinality({i \in code_issues :
                                      /\ i.repository_id = Get(call[c].repository).id
                                      /\ i.issue_type = k})
            /\ (IsSome(call'[c].response) /\ ~IsSome(call[c].response)) =>
                  /\ Get(call'[c].response).issues_by_severity = call[c].severity_counts
                  /\ Get(call'[c].response).issues_by_type = call[c].type_counts]_vars

\* An analysis has answered with one critical security issue and no other.
C3_Witness ==
    \E c \in Calls :
        /\ IsSome(call[c].response)
        /\ Get(call[c].response).issues_by_severity["critical"] = 1
        /\ Get(call[c].response).issues_by_severity["low"] = 0
        /\ Get(call[c].response).issues_by_type["security"] = 1
        /\ Get(call[c].response).issues_by_type["style"] = 0
        /\ Get(call[c].response).total_issues = 1

\* The steps of analyze that read or write the store.
StoreSteps == {"lookup", "insert", "count", "persist"}

\* The step that may directly follow each step.
Successors(step) ==
    CASE step = "resolve" -> {"fetch"}
      [] step = "fetch" -> {"lookup"}
      [] step = "lookup" -> {"insert", "count"}
      [] step = "insert" -> {"count"}
      [] step = "count" -> {"count", "persist"}
      [] step = "persist" -> {"return"}
      [] OTHER -> {}

\* The number of entries of steps that are step.
Occurrences(steps, step) == Cardinality({i \in DOMAIN steps : steps[i] = step})

\* C4: the steps of one call happen in the order resolve, fetch, lookup,
\* insert if absent, count, persist, return, none is skipped on the success
\* path, and the store is neither read nor written before the fetch succeeded.
C4_StepOrder ==
    /\ [](\A c \in Calls :
            LET steps == call[c].steps
            IN  /\ steps # <<>> => steps[1] = "resolve"
                /\ \A i \in DOMAIN steps :
                      i > 1 => steps[i] \in Successors(steps[i - 1])
                /\ \A step \in {"resolve", "fetch", "lookup", "insert",
                                "persist", "return"} : Occurrences(steps, step) <= 1
                /\ Occurrences(steps, "count") <= 10
                /\ Occurrences(steps, "persist") = 1 => Occurrences(steps, "count") = 10
                /\ (\E i \in DOMAIN steps : steps[i] \in StoreSteps) =>
                       call[c].upstream = Some("200")
                /\ IsSome(call[c].response) =>
                       /\ steps[Len(steps)] = "return"
                       /\ Len(steps) = 15 + Occurrences(steps, "insert"))
    /\ [][\A c \in Calls :
            (Stepped(c) /\ repositories' # repositories) =>
                /\ call[c].upstream = Some("200")
                /\ call'[c].steps[Len(call'[c].steps)] \in {"insert", "persist"}]_vars

\* A call has returned after inserting the repository.
C4_Witness ==
    \E c \in Calls :
        /\ IsSome(call[c].response)
        /\ call[c].steps =
               <<"resolve", "fetch", "lookup", "insert", "count", "count", "count",
                 "count", "count", "count", "count", "count", "count", "count",
                 "persist", "return">>

\* Request URLs that name no GitHub repository: a foreign host, no
\* repository segment.
UnresolvableUrls == {UrlOtherHost, UrlNoRepo}

\* The requests of the call that went to the repository-detail endpoint.
RepoRequests(c) ==
    {i \in DOMAIN call[c].requests : call[c].requests[i].endpoint # "/user"}

\* C5: when the identity of the repository URL cannot be resolved the call
\* ends with a validation error, sends no repository-detail request and
\* neither reads nor changes a row.
C5_UnresolvedIdentity ==
    \A c \in Calls : call[c].repository_url \in UnresolvableUrls =>
        /\ call[c].pc = "done"
        /\ call[c].response = None
        /\ IsSome(call[c].error)
        /\ IsSome(call[c].github_token) =>
               /\ Get(call[c].error).error = "ValidationError"
               /\ Get(call[c].error).status_code = 422
        /\ RepoRequests(c) = {}
        /\ call[c].upstream = None
        /\ \A i \in DOMAIN call[c].steps : call[c].steps[i] \notin StoreSteps

\* An authenticated call with a URL of a foreign host has ended with a
\* validation error.
C5_Witness ==
    \E c \in Calls :
        /\ call[c].repository_url = UrlOtherHost
        /\ IsSome(call[c].github_token)
        /\ IsSome(call[c].error)
        /\ Get(call[c].error).error = "ValidationError"

\* GitHub answered the repository-detail request of the call with a failure.
FetchFailed(f) == IsSome(f.upstream) /\ Get(f.upstream) # "200"

\* C6: when the fetch fails (404, another status, no response) the call has
\* sent exactly one repository-detail request, ends with an error, and no
\* repository row was inserted or updated by it.
C6_FetchFailure ==
    /\ [](\A c \in Calls : FetchFailed(call[c]) =>
            /\ call[c].pc = "done"
            /\ call[c].response = None
            /\ IsSome(call[c].error)
            /\ Get(call[c].error).status_code >= 400
            /\ Cardinality(RepoRequests(c)) = 1
            /\ call[c].steps = <<"resolve", "fetch">>)
    /\ [][\A c \in Calls :
            (Stepped(c) /\ FetchFailed(call'[c])) =>
                UNCHANGED <<repositories, code_issues>>]_vars

\* A call whose repository-detail request was answered 404 has ended.
C6_Witness ==
    \E c \in Calls :
        /\ call[c].upstream = Some("404")
        /\ call[c].pc = "done"
        /\ IsSome(call[c].error)

NoCredential(c) ==
    call[c].pc # "idle" /\ call[c].authorization = None /\ github_token = None

\* C8 as stated: a call with neither a caller token nor a configured token
\* still proceeds and is not rejected.
C8_ProceedsUnauthenticated ==
    \A c \in Calls : NoCredential(c) =>
        ~(IsSome(call[c].error) /\ Get(call[c].error).error = "AuthenticationError")

\* C8: the repository-detail request carries the caller's token when the
\* Authorization header gives one, else the configured token; a call with
\* neither is rejected with an authentication error and sends no request.
C8_CredentialSelection ==
    \A c \in Calls : call[c].pc # "idle" =>
        /\ \A i \in RepoRequests(c) :
              call[c].requests[i].authorization =
                  CASE call[c].authorization = Some(BearerT) -> Some("token t")
                    [] call[c].authorization = Some(TokenU) -> Some("token u")
                    [] call[c].authorization = None /\ github_token = Some("cfg")
                         -> Some("token cfg")
                    [] OTHER -> Some("no request")
        /\ NoCredential(c) =>
              /\ call[c].pc = "done"
              /\ IsSome(call[c].error)
              /\ Get(call[c].error).error = "AuthenticationError"
              /\ Get(call[c].error).status_code = 401
              /\ call[c].requests = <<>>

\* A call with neither token has been rejected.
C8_Witness ==
    \E c \in Calls :
        /\ NoCredential(c)
        /\ IsSome(call[c].error)
        /\ Get(call[c].error).message = "GitHub token required"

\* C9: in a sequential execution, analyze of a full_name absent from the
\* store inserts exactly one row built from the fetched metadata, with
\* code_quality and issues_count unset; analyze of a stored full_name inserts
\* nothing and returns the id of the stored row.
C9_InsertOrReuse ==
    [][\A c \in Calls : Stepped(c) =>
        LET f == call[c]
            g == call'[c]
            stored == IF IsSome(f.repo_data)
                      THEN {r \in repositories :
                               r.full_name = Get(f.repo_data).full_name}
                      ELSE {}
        IN  /\ (f.pc = "lookup" /\ stored = {}) => g.pc = "insert"
            /\ (f.pc = "lookup" /\ stored # {}) =>
                   /\ g.pc = "count_severity"
                   /\ Get(g.repository) \in stored
            /\ f.pc = "insert" =>
                   /\ stored = {}
                   /\ Cardinality(repositories' \ repositories) = 1
                   /\ repositories \subseteq repositories'
                   /\ \A r \in repositories' \ repositories :
                         /\ r.full_name = Get(f.repo_data).full_name
                         /\ r.name = Get(f.repo_data).name
                         /\ r.owner = Get(f.repo_data).owner.login
                         /\ r.url = Get(f.repo_data).html_url
                         /\ r.stars = Get(f.repo_data).stargazers_count
                         /\ r.code_quality = None
                         /\ r.issues_count = None
                         /\ r.id \notin {q.id : q \in repositories}
                         /\ g.repository = Some(r)
            /\ f.pc # "insert" =>
                   {r.id : r \in repositories'} = {r.id : r \in repositories}
            /\ (IsSome(g.response) /\ ~IsSome(f.response)) =>
                   /\ Cardinality(stored) = 1
                   /\ \A r \in stored : Get(g.response).repository_id = r.id]_vars

\* The first call inserted the repository and the second reused its row.
C9_Witness ==
    /\ IsSome(call["c1"].response)
    /\ IsSome(call["c2"].response)
    /\ \E i \in DOMAIN call["c1"].steps : call["c1"].steps[i] = "insert"
    /\ \A i \in DOMAIN call["c2"].steps : call["c2"].steps[i] # "insert"
    /\ Get(call["c1"].response).repository_id = Get(call["c2"].response).repository_id

\* C10: a step of an analyze call changes at most one repository row, the
\* one of the full_name it resolved, and no row of code_issues.
C10_AnalyzeFrame ==
    [][\A c \in Calls : Stepped(c) =>
        /\ code_issues' = code_issues
        /\ Cardinality(repositories' \ repositories) <= 1
        /\ Cardinality(repositories \ repositories') <= 1
        /\ \A r \in (repositories' \ repositories) \cup (repositories \ repositories') :
              /\ IsSome(call[c].repo_data)
              /\ r.full_name = Get(call[c].repo_data).full_name
              /\ r.full_name = call[c].owner \o "/" \o call[c].repo_name]_vars

\* An analysis has answered while another repository and an issue are stored.
C10_Witness ==
    \E c \in Calls, r \in repositories :
        /\ IsSome(call[c].response)
        /\ r.id # Get(call[c].response).repository_id
        /\ code_issues # {}

\* C11: two analyze calls in immediate succession for the same URL, the
\* issue rows unchanged and both fetches succeeding, return the same
\* summary, and the second leaves the store as the first left it.
C11_Idempotent ==
    /\ [](\A c, d \in Calls :
            (/\ IsSome(call[c].response)
             /\ IsSome(call[d].response)
             /\ call[c].repository_url = call[d].repository_url)
                => call[c].response = call[d].response)
    /\ [][\A c, d \in Calls :
            (/\ Stepped(d)
             /\ IsSome(call[c].response)
             /\ call[d].repository_url = call[c].repository_url)
                => UNCHANGED <<repositories, code_issues>>]_vars

\* Both calls have answered for the same URL with a summary of some issues.
C11_Witness ==
    /\ IsSome(call["c1"].response)
    /\ IsSome(call["c2"].response)
    /\ call["c1"].repository_url = call["c2"].repository_url
    /\ Get(call["c2"].response).total_issues > 0

Inserted(f) == \E i \in DOMAIN f.steps : f.steps[i] = "insert"

C14_UniqueFullName ==
    \A q, r \in repositories : q.full_name = r.full_name => q = r

\* Two calls raced to insert the same full_name: one row is stored and the
\* other call's commit was refused.
C14_Witness ==
    \E c, d \in Calls :
        /\ Inserted(call[c])
        /\ IsSome(call[c].response)
        /\ IsSome(call[d].error)
        /\ Get(call[d].error).error = "IntegrityError"
        /\ Cardinality({r \in repositories : r.full_name = "o/r"}) = 1

\* C15 as stated: creating a repository whose full_name is already stored
\* is answered with the conflict error (409), not an internal error.
C15_DuplicateIsConflict ==
    \A body \in CreateBodies :
        (/\ body.url \notin UnresolvableUrls
         /\ \E r \in repositories : r.full_name = body.full_name)
            => CreateStatus(repositories, body) = 409

\* C16: deleting a stored repository removes its row and every issue row of
\* its id in one step; issues of other repositories are unchanged, and in no
\* state does an issue refer to a repository that is gone.
C16_DeleteCascades ==
    /\ [](\A i \in code_issues : \E r \in repositories : r.id = i.repository_id)
    /\ [][\A q \in repositories :
            q.id \notin {r.id : r \in repositories'} =>
                /\ repositories' = repositories \ {q}
                /\ code_issues' = {i \in code_issues : i.repository_id # q.id}]_vars

\* The one issue ingested is gone with its repository, another repository stays.
C16_Witness ==
    /\ next_issue_id = 2
    /\ code_issues = {}
    /\ repositories # {}


\* A PATCH body whose numbers are within their ranges.
WellFormed(body) ==
    /\ ~OutOfRange(body)
    /\ ~("issues_count" \in DOMAIN body /\ IsSome(body.issues_count)
           /\ Get(body.issues_count) < 0)

Absent(id) == \A r \in repositories : r.id # id

InPage(skip, limit) == skip >= 0 /\ limit >= 1 /\ limit <= 100

\* C17: for a repository id that is not in the store, get, delete, a PATCH
\* with a well-formed body and a list-issues with a valid page are each
\* answered 404, and a PATCH or a DELETE of such an id leaves the
\* repositories and the issues unchanged.
C17_NotFound ==
    /\ [](\A id \in 1..(MaxRepoId + 1) : Absent(id) =>
            /\ GetStatus(repositories, id) = 404
            /\ DeleteStatus(repositories, id) = 404
            /\ \A body \in UpdateBodies :
                  WellFormed(body) => UpdateStatus(repositories, id, body) = 404
            /\ \A severity \in SeverityFilters, issue_type \in IssueTypeFilters,
                  skip \in Skips, limit \in Limits :
                  InPage(skip, limit) =>
                      get_repository_issues(repositories, code_issues, id, severity,
                                            issue_type, skip, limit).status = 404)
    /\ [][\A id \in 1..(MaxRepoId + 1) :
            (/\ Absent(id)
             /\ \/ DeleteRepository(id)
                \/ \E body \in UpdateBodies : UpdateRepository(id, body)
                \/ GetRepository(id)
                \/ \E severity \in SeverityFilters, issue_type \in IssueTypeFilters,
                      skip \in Skips, limit \in Limits :
                      GetRepositoryIssues(id, severity, issue_type, skip, limit))
            => UNCHANGED <<repositories, code_issues>>]_vars

\* A repository was created and deleted while another one is stored.
C17_Witness ==
    /\ repositories # {}
    /\ \E id \in 1..MaxRepoId :
          /\ id < next_repo_id
          /\ Absent(id)
          /\ GetStatus(repositories, id) = 404

\* The number of rows of a page of n rows.
PageLen(n, skip, limit) == Max(0, Min(limit, n - skip))

\* severity a sorts before severity b as text.
SeverityBefore(a, b) ==
    <<a, b>> \in {<<"critical", "high">>, <<"critical", "low">>,
                  <<"critical", "medium">>, <<"high", "low">>,
                  <<"high", "medium">>, <<"low", "medium">>}

IssueBefore(i, j) ==
    \/ SeverityBefore(i.severity, j.severity)
    \/ i.severity = j.severity /\ i.id < j.id

\* The issues of a repository that pass the filters.
Filtered(id, severity, issue_type) ==
    {i \in code_issues :
        /\ i.repository_id = id
        /\ severity # None => i.severity = Get(severity)
        /\ issue_type # None => i.issue_type = Get(issue_type)}

\* C18: a listing with skip < 0, limit < 1 or limit > 100 is answered 422;
\* otherwise list_repositories answers the rows that have skip, skip+1, ...,
\* skip+limit-1 repositories of greater id, in that order, and
\* get_repository_issues answers the selected issues that have that many
\* selected issues before them by (severity, id), in that order; neither
\* answers more than limit rows.
C18_Pagination ==
    \A skip \in Skips, limit \in Limits :
        LET page == list_repositories(repositories, skip, limit)
        IN  /\ IF ~InPage(skip, limit) THEN page.status = 422
               ELSE /\ page.status = 200
                    /\ Len(page.body) = PageLen(Cardinality(repositories), skip, limit)
                    /\ Len(page.body) <= limit
                    /\ \A k \in DOMAIN page.body :
                          /\ page.body[k] \in repositories
                          /\ Cardinality({q \in repositories : q.id > page.body[k].id})
                                 = skip + k - 1
            /\ \A r \in repositories, severity \in SeverityFilters,
                  issue_type \in IssueTypeFilters :
                  LET issues == get_repository_issues(repositories, code_issues, r.id,
                                                      severity, issue_type, skip, limit)
                      all == Filtered(r.id, severity, issue_type)
                  IN  IF ~InPage(skip, limit) THEN issues.status = 422
                      ELSE /\ issues.status = 200
                           /\ Len(issues.body) = PageLen(Cardinality(all), skip, limit)
                           /\ Len(issues.body) <= limit
                           /\ \A k \in DOMAIN issues.body :
                                 /\ issues.body[k] \in all
                                 /\ Cardinality({j \in all :
                                                     IssueBefore(j, issues.body[k])})
                                        = skip + k - 1

\* Two repositories are stored and one of them has issues of which a medium
\* one has a smaller id than a low one, so that a page with skip = 1 and
\* limit = 1 is neither the first row nor all rows.
C18_Witness ==
    /\ Cardinality(repositories) = 2
    /\ \E i, j \in code_issues :
          /\ i.repository_id = j.repository_id
          /\ i.severity = "medium" /\ j.severity = "low" /\ i.id < j.id
    /\ Len(list_repositories(repositories, 1, 1).body) = 1

\* The call was refused with a validation error before it asked GitHub.
Refused(f) ==
    /\ IsSome(f.error)
    /\ Get(f.error).error = "ValidationError"
    /\ f.upstream = None

\* The call holds a token, so that the URL decides how it goes on.
Admitted(f) == f.pc # "idle" /\ IsSome(f.github_token)

\* C19: a call whose URL is https://github.com/o/r, github.com/o/r or
\* git@github.com:o/r, with or without a trailing ".git" or slash, is not
\* refused with a validation error, and once resolved its owner is "o" and
\* its repository name "r", without the ".git".
C19_AcceptsForms ==
    \A c \in Calls :
        (Admitted(call[c]) /\ call[c].repository_url \in UrlForms) =>
            /\ ~Refused(call[c])
            /\ call[c].pc # "resolve" =>
                   (call[c].owner = "o" /\ call[c].repo_name = "r")

\* ^[A-Za-z0-9]([A-Za-z0-9_-]*[A-Za-z0-9])?$ and at most 100 characters.
NameAllowed(name) ==
    /\ Len(name) \in 1..100
    /\ name[1] \notin {"-", "_", "."}
    /\ name[Len(name)] \notin {"-", "_", "."}
    /\ \A k \in DOMAIN name : name[k] # "."

\* C20: a call whose URL is https://github.com/{owner}/{repo} is refused
\* with a validation error exactly when the owner or the repository name
\* does not match ^[A-Za-z0-9]([A-Za-z0-9_-]*[A-Za-z0-9])?$ or is longer
\* than 100 characters.
C20_NamePattern ==
    \A c \in Calls, owner \in OwnerNames, repo \in RepoNames :
        (Admitted(call[c]) /\ call[c].repository_url = GitHubUrl(owner, repo)) =>
            (Refused(call[c]) <=> ~(NameAllowed(owner) /\ NameAllowed(repo)))

\* C21: for every owner and name that match the name pattern,
\* extract_repo_info of https://github.com/<owner>/<name> returns exactly
\* (owner, name), and a call with that URL is resolved to that owner and name.
C21_RoundTrip ==
    \A owner \in OwnerNames, repo \in RepoNames :
        (NameAllowed(owner) /\ NameAllowed(repo)) =>
            /\ extract_repo_info(GitHubUrl(owner, repo)).ok
            /\ extract_repo_info(GitHubUrl(owner, repo)).owner = Join(owner)
            /\ extract_repo_info(GitHubUrl(owner, repo)).repo = Join(repo)
            /\ \A c \in Calls :
                  (/\ Admitted(call[c])
                   /\ call[c].repository_url = GitHubUrl(owner, repo)
                   /\ call[c].pc # "resolve") =>
                      /\ ~Refused(call[c])
                      /\ call[c].owner = Join(owner)
                      /\ call[c].repo_name = Join(repo)

\* A call with the URL of an owner in mixed case has been resolved.
C21_Witness ==
    \E c \in Calls :
        /\ call[c].repository_url = GitHubUrl(<<"O","c","1">>, <<"r">>)
        /\ call[c].owner = "Oc1"
        /\ call[c].repo_name = "r"
        /\ "resolve" \in Range(call[c].steps)

\* ^[A-Za-z0-9]([A-Za-z0-9_-]*[A-Za-z0-9])?$
PatternOk(name) ==
    /\ name # <<>>
    /\ name[1] \notin {"-", "_", "."}
    /\ name[Len(name)] \notin {"-", "_", "."}
    /\ \A k \in DOMAIN name : name[k] # "."

\* The call was refused with this validation message and no other error.
RefusedWith(f, message) ==
    /\ Refused(f)
    /\ Get(f.error).status_code = 422
    /\ Get(f.error).message = message
    /\ f.response = None

\* C22: a call whose URL names a foreign host, has fewer than two path
\* segments, or names an owner or a repository that fails
\* ^[A-Za-z0-9]([A-Za-z0-9_-]*[A-Za-z0-9])?$ is refused with a validation
\* error; when a name fails the pattern the message names the owner if the
\* owner fails, else the repository.
C22_ValidationErrorNamesField ==
    \A c \in Calls : Admitted(call[c]) =>
        /\ call[c].repository_url = UrlOtherHost =>
               RefusedWith(call[c], "URL must be a GitHub repository URL")
        /\ call[c].repository_url \in {UrlNoRepo, GitHubUrl(<<>>, <<"r">>)} =>
               RefusedWith(call[c], "Invalid GitHub repository URL format")
        /\ \A owner \in OwnerNames \ {<<>>}, repo \in RepoNames :
              call[c].repository_url = GitHubUrl(owner, repo) =>
                  /\ ~PatternOk(owner) =>
                         RefusedWith(call[c], "Invalid GitHub owner name")
                  /\ (PatternOk(owner) /\ ~PatternOk(repo)) =>
                         RefusedWith(call[c], "Invalid GitHub repository name")

\* C23: validate_severity returns the lower-case severity for every casing
\* of low, medium, high and critical, raises a validation error for every
\* other string, returns its own result unchanged when applied to it, and
\* every issue created through it is stored with a lower-case severity.
C23_SeverityNormalised ==
    /\ \A word \in allowed_severities :
          /\ \A text \in Casings(word) :
                validate_severity(text) = [ok |-> TRUE, value |-> word]
          /\ validate_severity(word) = [ok |-> TRUE, value |-> word]
    /\ \A text \in OtherSeverities :
          /\ ~validate_severity(text).ok
          /\ validate_severity(text).error = "ValidationError"
    /\ \A i \in code_issues : i.severity \in {"low", "medium", "high", "critical"}

\* An issue has been created and stored, which the severity HIGH given in
\* upper case allows.
C23_Witness ==
    /\ validate_severity(<<"H","I","G","H">>).ok
    /\ \E i \in code_issues : i.severity = "high" /\ i.issue_type = "style"

\* The rows that hold the full_name the call fetched.
StoredFor(f) ==
    {r \in repositories : IsSome(f.repo_data) /\ r.full_name = Get(f.repo_data).full_name}

\* C24: nothing guards the insert of a call that found its full_name absent:
\* its next step attempts the insert whatever the store holds by then; the
\* attempt adds the row when the full_name is still absent and is refused
\* by the unique constraint when another call inserted it in between.  Two
\* concurrent calls can both find o/r absent and both attempt the insert.
C24_UnguardedInsert ==
    [][\A c \in Calls : (Stepped(c) /\ call[c].pc = "insert") =>
          /\ Inserted(call'[c])
          /\ StoredFor(call[c]) = {} =>
                 /\ call'[c].pc = "count_severity"
                 /\ Cardinality(repositories' \ repositories) = 1
          /\ StoredFor(call[c]) # {} =>
                 /\ IsSome(call'[c].error)
                 /\ Get(call'[c].error).error = "IntegrityError"
                 /\ repositories' = repositories]_vars

\* Both calls found o/r absent and both attempted to insert it.
C24_Witness ==
    /\ call["c1"].repository_url = call["c2"].repository_url
    /\ Inserted(call["c1"])
    /\ Inserted(call["c2"])
    /\ Cardinality({r \in repositories : r.full_name = "o/r"}) = 1

\* The severity counts of the issues a repository owns now.
CurrentCounts(id) ==
    [severity \in {"low", "medium", "high", "critical"} |->
        Cardinality({i \in code_issues : i.repository_id = id /\ i.severity = severity})]

\* C25: when an analyze call of a stored repository commits an update of
\* the row, the row then holds that call's pair of code_quality and
\* issues_count, so that after all calls the pair is the one of the last
\* writer; and when all calls have answered with the counts the issues have
\* now, the row holds the aggregate of the current issues.
C25_LastWriterWins ==
    /\ [][\A c \in Calls :
            (/\ Stepped(c)
             /\ call[c].pc = "persist"
             /\ ~Inserted(call[c])
             /\ repositories' # repositories) =>
                \A r \in repositories' :
                    r.id = Get(call[c].repository).id =>
                        /\ r.code_quality = Some(QualityScore(call[c].severity_counts))
                        /\ r.issues_count = Some(TotalIssues(call[c].severity_counts))]_vars
    /\ [](\A r \in repositories :
            (\A c \in Calls :
                /\ IsSome(call[c].response)
                /\ Get(call[c].response).repository_id = r.id
                /\ call[c].severity_counts = CurrentCounts(r.id)) =>
                    /\ r.code_quality = Some(QualityScore(CurrentCounts(r.id)))
                    /\ r.issues_count = Some(TotalIssues(CurrentCounts(r.id))))

\* The CRUD endpoints with the larger set of PATCH bodies, and ingestion.
NextPatch ==
    \/ Crud(CreateBodies, PatchBodies)
    \/ Ingest

SpecPatch == Init /\ [][NextPatch]_vars

\* The step is a PATCH of a stored repository with a well-formed body.
Patched(id, body) ==
    /\ UpdateRepository(id, body)
    /\ ~Absent(id)
    /\ WellFormed(body)

\* C26 as stated: a PATCH of a stored repository sets the fields of the
\* request to the values of the request, a null included, and leaves every
\* other field of the row, every other row and every issue unchanged.
C26_PatchOnlyNamedFields ==
    [][\A id \in 1..MaxRepoId, body \in PatchBodies : Patched(id, body) =>
          /\ code_issues' = code_issues
          /\ {r.id : r \in repositories'} = {q.id : q \in repositories}
          /\ \A q \in repositories, r \in repositories' : q.id = r.id =>
                IF q.id # id THEN r = q
                ELSE \A field \in DOMAIN q :
                        r[field] = IF field \in DOMAIN body THEN body[field]
                                   ELSE q[field]]_vars

\* C26: a PATCH of a stored repository sets the fields of the request to
\* the values of the request, a null included; it sets last_updated when
\* one of them changes, and leaves every other field of the row, every
\* other row and every issue unchanged.
C26_PatchFrame ==
    [][\A id \in 1..MaxRepoId, body \in PatchBodies : Patched(id, body) =>
          /\ code_issues' = code_issues
          /\ {r.id : r \in repositories'} = {q.id : q \in repositories}
          /\ \A q \in repositories, r \in repositories' : q.id = r.id =>
                IF q.id # id THEN r = q
                ELSE /\ \A field \in DOMAIN q \ {"last_updated"} :
                           r[field] = IF field \in DOMAIN body THEN body[field]
                                      ELSE q[field]
                     /\ IF \E field \in DOMAIN body : body[field] # q[field]
                        THEN r.last_updated # None
                        ELSE r.last_updated = q.last_updated]_vars

\* A repository whose code_quality was set and then set to null again,
\* beside a row that was never updated.
C26_Witness ==
    \E q, r \in repositories :
        /\ r.code_quality = None
        /\ r.description = Some("d")
        /\ r.last_updated # None
        /\ q.last_updated = None

\* C27: under any interleaving of analyze calls for the same full_name, a
\* call whose identity resolution and metadata fetch succeeded does not end
\* in an error: it is not refused because another call inserted the
\* full_name first.
C27_NoCallLosesTheInsert ==
    \A c \in Calls : IsSome(call[c].repo_data) => call[c].error = None

-----------------------------------------------------------------------------
(* One analysis call at a time over issue rows of any severity and type *)

NextKinds ==
    \/ \E c \in Calls :
          /\ \A d \in Calls \ {c} : ~InProgress(d)
          /\ Analyze({c}, {UrlOR}, {None})
    \/ Quiet /\ \E body \in CreateBodies : CreateRepository(body)
    \/ Quiet /\ \E id \in 1..MaxRepoId, kind \in StoredKinds : IngestIssue(id, kind)

SpecKinds == InitSeq /\ [][NextKinds]_vars

\* The issue rows a repository owns.
Owned(id) == {i \in code_issues : i.repository_id = id}

\* The sum of the six per-type counts of a summary.
TypeTotal(type_counts) ==
    type_counts["security"] + type_counts["performance"] + type_counts["codeQuality"]
        + type_counts["accessibility"] + type_counts["bug"] + type_counts["style"]

\* C28: when analyze returns a summary, its total_issues, the six per-type
\* counts together and the stored issues_count all equal the number of
\* issue rows the repository owns, whatever severity and issue_type the
\* rows hold.
C28_TotalIsRowCount ==
    [][\A c \in Calls : (IsSome(call'[c].response) /\ ~IsSome(call[c].response)) =>
          LET summary == Get(call'[c].response)
              rows == Cardinality(Owned(summary.repository_id))
          IN  /\ summary.total_issues = rows
              /\ TypeTotal(summary.issues_by_type) = rows
              /\ \A r \in repositories : r.id = summary.repository_id =>
                     r.issues_count = Some(rows)]_vars

\* The columns analysis computes, and the timestamp of the UPDATE.
Computed == {"code_quality", "issues_count", "last_updated"}

C30_FullNameIsOwnerSlashName ==
    \A r \in repositories : r.full_name = r.owner \o "/" \o r.name
====
